---- MODULE Spec2Model ----
(***************************************************************************)
(* SheetsService (workspace-server/src/services/SheetsService.ts):         *)
(* getText (the multi-sheet export), the csv cell encoding it uses, and    *)
(* pasteCSVData (the upsert-paste).                                        *)
(*                                                                         *)
(* A JavaScript string is a sequence of one-character strings, so that     *)
(* trim(), includes(), replace() and join() are computed and not assumed.  *)
(***************************************************************************)
EXTENDS Integers, Sequences, FiniteSets, TLC

VARIABLES
    op,             \* the entry point invoked: "getText", "pasteCSVData", "csvCell"
    \* ---- getText
    pc,             \* position in getText
    format,         \* 'text' | 'csv' | 'json'
    book,           \* the spreadsheet the backend holds (metadata)
    sheetNames,     \* const sheetNames (line 51)
    idx,            \* position of the for..of loop in sheetNames
    content,        \* let content (line 42)
    jsonData,       \* const jsonData (line 43), a JavaScript object
    calls,          \* history: the backend calls of getText, in the order issued
    result,         \* the envelope's payload returned by getText
    \* ---- csv cell encoding
    cell,           \* a cell value handed to the csv encoder
    csvOut,         \* the field the csv encoder emitted for it
    \* ---- pasteCSVData
    ppc,            \* position in pasteCSVData
    ptitle,         \* parameter title
    pbook,          \* the spreadsheet the backend holds (metadata)
    existingSheet,  \* const existingSheet (line 268)
    targetSheetId,  \* let targetSheetId (line 272)
    requests,       \* const requests (line 273)
    submitted,      \* history: the request bodies handed to batchUpdate
    pcalls,         \* history: the backend calls of pasteCSVData, in the order issued
    presult         \* the envelope's payload returned by pasteCSVData

getTextVars == <<pc, format, book, sheetNames, idx, content, jsonData, calls, result>>
cellVars == <<cell, csvOut>>
pasteVars == <<ppc, ptitle, pbook, existingSheet, targetSheetId, requests, submitted,
               pcalls, presult>>
vars == <<op, getTextVars, cellVars, pasteVars>>

-----------------------------------------------------------------------------
(* Bounds of the model *)

\* most sheets in a spreadsheet
MaxSheets == 3
\* longest string cell handed to the csv encoder
MaxCellLen == 2
\* largest number cell
MaxNum == 2
\* Math.random() returns k / RandSteps for k in 0 .. RandSteps-1
RandSteps == 3

-----------------------------------------------------------------------------
(* JavaScript values *)

\* an optional string: undefined, or a string
Undefined == [def |-> FALSE, s |-> <<>>]
Str(s) == [def |-> TRUE, s |-> s]

\* !x for an optional string: undefined and '' are falsy
Falsy(x) == ~x.def \/ x.s = <<>>

\* a cell value: a string, a number, a boolean, or empty (null / undefined)
StrCell(s) == [t |-> "str", s |-> s, n |-> 0]
NumCell(n) == [t |-> "num", s |-> <<>>, n |-> n]
BoolCell(b) == [t |-> "bool", s |-> <<>>, n |-> IF b THEN 1 ELSE 0]
NullCell == [t |-> "null", s |-> <<>>, n |-> 0]

\* !cell : '', 0, false, null and undefined are falsy
CellFalsy(c) ==
    \/ c.t = "null"
    \/ c.t = "str" /\ c.s = <<>>
    \/ c.t = "num" /\ c.n = 0
    \/ c.t = "bool" /\ c.n = 0

Digit(d) == CASE d = 0 -> "0" [] d = 1 -> "1" [] d = 2 -> "2" [] d = 3 -> "3" [] d = 4 -> "4"
              [] d = 5 -> "5" [] d = 6 -> "6" [] d = 7 -> "7" [] d = 8 -> "8" [] d = 9 -> "9"

RECURSIVE NumberToString(_)
NumberToString(n) ==
    IF n < 10 THEN <<Digit(n)>> ELSE NumberToString(n \div 10) \o <<Digit(n % 10)>>

\* String(v)
JsString(c) ==
    CASE c.t = "str" -> c.s
      [] c.t = "num" -> NumberToString(c.n)
      [] c.t = "bool" -> IF c.n = 1 THEN <<"t", "r", "u", "e">> ELSE <<"f", "a", "l", "s", "e">>
      [] c.t = "null" -> <<"n", "u", "l", "l">>

\* cell || ''
OrEmpty(c) == IF CellFalsy(c) THEN StrCell(<<>>) ELSE c

\* s.includes(ch)
Includes(s, ch) == \E i \in 1..Len(s) : s[i] = ch

\* s.replace(/"/g, '""')
RECURSIVE DoubleQuotes(_)
DoubleQuotes(s) ==
    IF s = <<>> THEN <<>>
    ELSE (IF Head(s) = "\"" THEN <<"\"", "\"">> ELSE <<Head(s)>>) \o DoubleQuotes(Tail(s))

\* strs.join(sep), strs a sequence of strings
RECURSIVE Join(_, _)
Join(strs, sep) ==
    IF strs = <<>> THEN <<>>
    ELSE IF Len(strs) = 1 THEN strs[1]
    ELSE strs[1] \o sep \o Join(Tail(strs), sep)

IsWhitespace(ch) == ch \in {" ", "\n", "\t", "\r"}

RECURSIVE TrimEnd(_)
TrimEnd(s) ==
    IF s # <<>> /\ IsWhitespace(s[Len(s)]) THEN TrimEnd(SubSeq(s, 1, Len(s) - 1)) ELSE s

RECURSIVE TrimStart(_)
TrimStart(s) ==
    IF s # <<>> /\ IsWhitespace(Head(s)) THEN TrimStart(Tail(s)) ELSE s

\* s.trim()
Trim(s) == TrimStart(TrimEnd(s))

\* error instanceof Error ? error.message : String(error)
ErrorMessage(e) == e.message

\* a backend call that has been issued and is awaited
Pending(call, pos) ==
    [call |-> call, pos |-> pos, outcome |-> "pending", values |-> <<>>, message |-> ""]

\* the awaited call (the last one issued) returns or throws
Returned(log, values) ==
    [log EXCEPT ![Len(log)] = [@ EXCEPT !.outcome = "ok", !.values = values]]
Thrown(log, e) ==
    [log EXCEPT ![Len(log)] = [@ EXCEPT !.outcome = "failed", !.message = e.message]]

-----------------------------------------------------------------------------
(* The format encoders of getText *)

\* the arrow function of row.map in the csv branch
CsvCell(c) ==
    LET cellStr == JsString(OrEmpty(c))
    IN  IF Includes(cellStr, ",") \/ Includes(cellStr, "\"") \/ Includes(cellStr, "\n")
        THEN <<"\"">> \o DoubleQuotes(cellStr) \o <<"\"">>
        ELSE cellStr

\* row.map(...).join(',') + '\n'
CsvRow(row) == Join([i \in 1..Len(row) |-> CsvCell(row[i])], <<",">>) \o <<"\n">>

\* row.map(cell => cell || '').join(' | ') + '\n'
TextRow(row) == Join([i \in 1..Len(row) |-> JsString(OrEmpty(row[i]))], <<" ", "|", " ">>) \o <<"\n">>

\* values.forEach(row => content += ...)
RECURSIVE EncodeRows(_, _)
EncodeRows(rows, fmt) ==
    IF rows = <<>> THEN <<>>
    ELSE (IF fmt = "csv" THEN CsvRow(Head(rows)) ELSE TextRow(Head(rows)))
         \o EncodeRows(Tail(rows), fmt)

SheetNameHeader(name) ==
    <<"S", "h", "e", "e", "t", " ", "N", "a", "m", "e", ":", " ">> \o name \o <<"\n">>

EmptySheetMarker == <<"(", "E", "m", "p", "t", "y", " ", "s", "h", "e", "e", "t", ")", "\n">>

\* what a sheet whose fetch succeeded adds to content (text and csv)
SheetBlock(name, values, fmt) ==
    SheetNameHeader(name)
    \o (IF Len(values) = 0 THEN EmptySheetMarker ELSE EncodeRows(values, fmt))
    \o <<"\n">>

\* what a sheet whose fetch failed adds to content (text and csv)
ErrorBlock(name) ==
    SheetNameHeader(name)
    \o <<"(", "E", "r", "r", "o", "r", " ", "r", "e", "a", "d", "i", "n", "g", " ",
         "s", "h", "e", "e", "t", ")", "\n", "\n">>

TitleHeader(title) ==
    <<"S", "p", "r", "e", "a", "d", "s", "h", "e", "e", "t", " ", "T", "i", "t", "l", "e", ":", " ">>
    \o title \o <<"\n", "\n">>

-----------------------------------------------------------------------------
(* A JavaScript object used as a map: jsonData *)

IsDigit(ch) == ch \in {"0", "1", "2", "3", "4", "5", "6", "7", "8", "9"}

DigitValue(ch) == CHOOSE d \in 0..9 : Digit(d) = ch

\* an array index key: a canonical decimal numeral ("0", or digits without a leading "0")
IsIndexKey(k) ==
    /\ k # <<>>
    /\ \A i \in 1..Len(k) : IsDigit(k[i])
    /\ Len(k) > 1 => k[1] # "0"

RECURSIVE KeyNumber(_)
KeyNumber(k) ==
    IF k = <<>> THEN 0 ELSE 10 * KeyNumber(SubSeq(k, 1, Len(k) - 1)) + DigitValue(k[Len(k)])

ProtoKey == <<"_", "_", "p", "r", "o", "t", "o", "_", "_">>

\* obj[k] = v. obj is the sequence of own properties in creation order.
\* Assigning obj['__proto__'] runs the setter of Object.prototype: it changes the
\* prototype and creates no own property.
SetProperty(obj, k, v) ==
    IF k = ProtoKey THEN obj
    ELSE IF \E i \in 1..Len(obj) : obj[i].key = k
    THEN [i \in 1..Len(obj) |-> IF obj[i].key = k THEN [key |-> k, value |-> v] ELSE obj[i]]
    ELSE Append(obj, [key |-> k, value |-> v])

\* the number of own properties enumerated before obj[i]: index keys come first in
\* ascending numeric order, then the other keys in creation order
RankOf(obj, i) ==
    Cardinality({j \in 1..Len(obj) :
        IF IsIndexKey(obj[i].key)
        THEN IsIndexKey(obj[j].key) /\ KeyNumber(obj[j].key) < KeyNumber(obj[i].key)
        ELSE IsIndexKey(obj[j].key) \/ j < i})

\* JSON.stringify(obj, null, 2), as the ordered members of the object it writes
JSONStringify(obj) ==
    [r \in 1..Len(obj) |-> obj[CHOOSE i \in 1..Len(obj) : RankOf(obj, i) = r - 1]]

-----------------------------------------------------------------------------
(* What the backend can hold and answer *)

Formats == {"text", "csv", "json"}

\* errors a backend call can throw
Errors == {[message |-> "Transport"], [message |-> "NotFound"]}

\* sheet.properties?.title of the sheets of the exported spreadsheet
SheetTitles ==
    {Undefined, Str(<<"1">>), Str(<<"2">>), Str(<<"E", "m", "p", "t", "y">>), Str(ProtoKey)}

SeqsUpTo(S, n) == UNION {[1..m -> S] : m \in 0..n}

\* the backend keeps the titles of the sheets of one spreadsheet distinct
DistinctTitles(ts) ==
    \A i, j \in 1..Len(ts) : (i # j /\ ts[i].def /\ ts[j].def) => ts[i].s # ts[j].s

\* spreadsheet.data of spreadsheets.get: properties?.title and sheets?
Books ==
    {[title |-> t, hasSheets |-> TRUE, sheets |-> ts] :
        t \in {Undefined, Str(<<"B", "o", "o", "k">>)},
        ts \in {x \in SeqsUpTo(SheetTitles, MaxSheets) : DistinctTitles(x)}}
    \cup {[title |-> Str(<<"B", "o", "o", "k">>), hasSheets |-> FALSE, sheets |-> <<>>]}

\* response.data.values of spreadsheets.values.get: undefined, or rows of cells
RangeValues ==
    { [def |-> FALSE, rows |-> <<>>],
      [def |-> TRUE, rows |-> <<>>],
      [def |-> TRUE, rows |-> << <<StrCell(<<"a">>), StrCell(<<"b">>)>>,
                                <<StrCell(<<"c", ",", " ", "d">>), StrCell(<<"e", "\"", "f">>)>> >>],
      [def |-> TRUE, rows |-> << <<NumCell(0), BoolCell(FALSE), NullCell, NumCell(1)>> >>],
      [def |-> TRUE, rows |-> << <<StrCell(<<>>)>> >>] }

\* response.data.values || []
ValuesOrEmpty(v) == IF v.def THEN v.rows ELSE <<>>

NoResult == [kind |-> "none", text |-> <<>>, json |-> <<>>, message |-> ""]

\* mutant: the text is returned without trim()
SuccessResultUntrimmed(fmt, text, obj) ==
    IF fmt = "json"
    THEN [kind |-> "success", text |-> <<>>, json |-> JSONStringify(obj), message |-> ""]
    ELSE [kind |-> "success", text |-> text, json |-> <<>>, message |-> ""]

\* { content: [{ type: "text", text: content.trim() }] }
SuccessResult(fmt, text, obj) ==
    IF fmt = "json"
    THEN [kind |-> "success", text |-> <<>>, json |-> JSONStringify(obj), message |-> ""]
    ELSE [kind |-> "success", text |-> Trim(text), json |-> <<>>, message |-> ""]

\* { content: [{ type: "text", text: JSON.stringify({ error: errorMessage }) }] }
ErrorResult(e) == [kind |-> "error", text |-> <<>>, json |-> <<>>, message |-> ErrorMessage(e)]

-----------------------------------------------------------------------------
(* getText *)

GetTextIdle ==
    /\ pc = "idle" /\ format = "text"
    /\ book = [title |-> Undefined, hasSheets |-> FALSE, sheets |-> <<>>]
    /\ sheetNames = <<>> /\ idx = 1 /\ content = <<>> /\ jsonData = <<>>
    /\ calls = <<>> /\ result = NoResult

CellIdle == cell = NullCell /\ csvOut = Undefined

\* getText is invoked: sheets.spreadsheets.get is awaited
GetTextCall ==
    /\ op = "getText" /\ pc = "start"
    /\ calls' = Append(calls, Pending("get", 0))
    /\ pc' = "meta"
    /\ UNCHANGED <<op, format, book, sheetNames, idx, content, jsonData,
                   result, cellVars, pasteVars>>

\* spreadsheets.get returns: title header, sheet names, the loop starts
MetaOk ==
    /\ op = "getText" /\ pc = "meta"
    /\ content' = IF ~Falsy(book.title) /\ format # "json"
                  THEN TitleHeader(book.title.s) ELSE <<>>
    /\ jsonData' = <<>>
    /\ sheetNames' = IF book.hasSheets
                     THEN [i \in 1..Len(book.sheets) |-> book.sheets[i]] ELSE <<>>
    /\ idx' = 1
    /\ calls' = Returned(calls, <<>>)
    /\ pc' = "loop"
    /\ UNCHANGED <<op, format, book, result, cellVars, pasteVars>>

\* getSheetsClient or spreadsheets.get throws: the outer catch
MetaFail ==
    /\ op = "getText" /\ pc = "meta"
    /\ \E e \in Errors :
        /\ result' = ErrorResult(e)
        /\ calls' = Thrown(calls, e)
    /\ pc' = "done"
    /\ UNCHANGED <<op, format, book, sheetNames, idx, content, jsonData,
                   cellVars, pasteVars>>

\* if (!sheetName) continue
SkipSheet ==
    /\ op = "getText" /\ pc = "loop" /\ idx <= Len(sheetNames)
    /\ Falsy(sheetNames[idx])
    /\ idx' = idx + 1
    /\ UNCHANGED <<op, pc, format, book, sheetNames, content, jsonData, calls,
                   result, cellVars, pasteVars>>

\* mutant: values.get is issued and not awaited, the loop goes on
IssueRangeNoAwait ==
    /\ op = "getText" /\ pc = "loop" /\ idx <= Len(sheetNames)
    /\ ~Falsy(sheetNames[idx])
    /\ calls' = Append(calls, Pending("values", idx))
    /\ idx' = idx + 1
    /\ UNCHANGED <<op, pc, format, book, sheetNames, content, jsonData,
                   result, cellVars, pasteVars>>

\* await sheets.spreadsheets.values.get({ range: `'${sheetName}'` }) is issued
IssueRange ==
    /\ op = "getText" /\ pc = "loop" /\ idx <= Len(sheetNames)
    /\ ~Falsy(sheetNames[idx])
    /\ calls' = Append(calls, Pending("values", idx))
    /\ pc' = "fetch"
    /\ UNCHANGED <<op, format, book, sheetNames, idx, content, jsonData,
                   result, cellVars, pasteVars>>

\* values.get returns: the try block of the loop body
RangeOk ==
    /\ op = "getText" /\ pc = "fetch"
    /\ \E v \in RangeValues :
        LET values == ValuesOrEmpty(v)
            sheetName == sheetNames[idx].s
        IN  /\ IF format = "json"
               THEN /\ jsonData' = SetProperty(jsonData, sheetName, values)
                    /\ content' = content
               ELSE /\ content' = content \o SheetBlock(sheetName, values, format)
                    /\ jsonData' = jsonData
            /\ calls' = Returned(calls, values)
    /\ idx' = idx + 1
    /\ pc' = "loop"
    /\ UNCHANGED <<op, format, book, sheetNames, result, cellVars, pasteVars>>

\* mutant: no try/catch in the loop body, a failed values.get reaches the outer catch
RangeFailRethrow ==
    /\ op = "getText" /\ pc = "fetch"
    /\ \E e \in Errors :
        /\ calls' = Thrown(calls, e)
        /\ result' = ErrorResult(e)
    /\ pc' = "done"
    /\ UNCHANGED <<op, format, book, sheetNames, idx, content, jsonData, cellVars, pasteVars>>

\* values.get throws: the catch (sheetError) block of the loop body
RangeFail ==
    /\ op = "getText" /\ pc = "fetch"
    /\ \E e \in Errors : calls' = Thrown(calls, e)
    /\ content' = IF format = "json" THEN content ELSE content \o ErrorBlock(sheetNames[idx].s)
    /\ idx' = idx + 1
    /\ pc' = "loop"
    /\ UNCHANGED <<op, format, book, sheetNames, jsonData, result, cellVars, pasteVars>>

\* after the loop: JSON.stringify for json, content.trim(), the envelope
GetTextReturn ==
    /\ op = "getText" /\ pc = "loop" /\ idx > Len(sheetNames)
    /\ result' = SuccessResult(format, content, jsonData)
    /\ pc' = "done"
    /\ UNCHANGED <<op, format, book, sheetNames, idx, content, jsonData, calls,
                   cellVars, pasteVars>>

-----------------------------------------------------------------------------
(* The csv cell encoder on its own *)

CellAlphabet == {"a", ",", "\"", "\n"}

\* the cell values of the data model: strings, numbers, booleans, empty
Cells ==
    {StrCell(s) : s \in SeqsUpTo(CellAlphabet, MaxCellLen)}
    \cup {NumCell(n) : n \in 0..MaxNum}
    \cup {BoolCell(TRUE), BoolCell(FALSE), NullCell}

\* one application of the csv branch of row.map to one cell
EncodeCell ==
    /\ op = "csvCell" /\ ~csvOut.def
    /\ csvOut' = Str(CsvCell(cell))
    /\ UNCHANGED <<op, cell, getTextVars, pasteVars>>

-----------------------------------------------------------------------------
(* pasteCSVData *)

\* an optional number
NoNumber == [def |-> FALSE, n |-> 0]
Num(n) == [def |-> TRUE, n |-> n]

\* x || 0 for an optional number
OrZero(x) == IF x.def /\ x.n # 0 THEN x.n ELSE 0

\* the bound of the random draw
RandomRange == 2147483647

\* mutant: a signed draw, centred on 0
RandomSheetIdSigned(k) ==
    (RandomRange \div RandSteps) * k + ((RandomRange % RandSteps) * k) \div RandSteps
    - RandomRange \div 2

\* Math.floor(Math.random() * 2147483647) with Math.random() = k / RandSteps
\* (k * RandomRange is split so that no product exceeds 32 bits)
RandomSheetId(k) ==
    (RandomRange \div RandSteps) * k + ((RandomRange % RandSteps) * k) \div RandSteps

PasteTitles == {<<"N", "e", "w", "D", "a", "t", "a">>, <<"D", "a", "t", "a">>, <<"d", "a", "t", "a">>}

\* properties?.title and properties?.sheetId of the sheets of the target spreadsheet
PasteSheets ==
    {[title |-> t, sheetId |-> i] :
        t \in {Undefined} \cup {Str(x) : x \in PasteTitles},
        i \in {NoNumber, Num(0), Num(7)}}

\* the backend keeps titles and sheet ids distinct within one spreadsheet
DistinctSheets(ss) ==
    \A i, j \in 1..Len(ss) : i # j =>
        /\ (ss[i].title.def /\ ss[j].title.def) => ss[i].title.s # ss[j].title.s
        /\ (ss[i].sheetId.def /\ ss[j].sheetId.def) => ss[i].sheetId.n # ss[j].sheetId.n

PasteBooks ==
    {[hasSheets |-> TRUE, sheets |-> ss] :
        ss \in {x \in SeqsUpTo(PasteSheets, MaxSheets) : DistinctSheets(x)}}
    \cup {[hasSheets |-> FALSE, sheets |-> <<>>]}

\* s.toLowerCase() over the letters of the sheet titles
LowerChar(ch) == CASE ch = "D" -> "d" [] ch = "N" -> "n" [] OTHER -> ch
ToLowerCase(str) == [i \in 1..Len(str) |-> LowerChar(str[i])]

\* mutant: the title is compared without regard to case
TitleMatchesIgnoreCase(s, title) ==
    s.title.def /\ ToLowerCase(s.title.s) = ToLowerCase(title)

\* (s) => s.properties?.title === title
TitleMatches(s, title) == s.title.def /\ s.title.s = title

NoSheet == [found |-> FALSE, sheet |-> [title |-> Undefined, sheetId |-> NoNumber]]

\* spreadsheet.data.sheets?.find(...): the first sheet that matches, or undefined
FindSheet(b, title) ==
    IF b.hasSheets /\ \E i \in 1..Len(b.sheets) : TitleMatches(b.sheets[i], title)
    THEN [found |-> TRUE,
          sheet |-> b.sheets[CHOOSE i \in 1..Len(b.sheets) :
                        /\ TitleMatches(b.sheets[i], title)
                        /\ \A j \in 1..(i - 1) : ~TitleMatches(b.sheets[j], title)]]
    ELSE NoSheet

\* { addSheet: { properties: { title, sheetId } } }
AddSheetRequest(title, id) == [kind |-> "addSheet", sheetId |-> id, title |-> title]

\* { pasteData: { coordinate: { sheetId, rowIndex, columnIndex }, data, type, delimiter } }
PasteDataRequest(id) == [kind |-> "pasteData", sheetId |-> id, title |-> <<>>]

NoPasteResult == [kind |-> "none", message |-> <<>>, sheetId |-> 0, error |-> ""]

UpdatedMessage(title) ==
    <<"U", "p", "d", "a", "t", "e", "d", " ", "e", "x", "i", "s", "t", "i", "n", "g", " ",
      "s", "h", "e", "e", "t", " ", "\"">> \o title \o <<"\"">>

CreatedMessage(title) ==
    <<"C", "r", "e", "a", "t", "e", "d", " ", "n", "e", "w", " ", "s", "h", "e", "e", "t", " ", "\"">>
    \o title
    \o <<"\"", " ", "a", "n", "d", " ", "p", "o", "p", "u", "l", "a", "t", "e", "d", " ",
         "w", "i", "t", "h", " ", "d", "a", "t", "a">>

\* JSON.stringify({ status: "success", message, sheetId })
PasteSuccess(existing, title, id) ==
    [kind |-> "success",
     message |-> IF existing.found THEN UpdatedMessage(title) ELSE CreatedMessage(title),
     sheetId |-> id, error |-> ""]

\* JSON.stringify({ error: errorMessage })
PasteError(e) == [kind |-> "error", message |-> <<>>, sheetId |-> 0, error |-> ErrorMessage(e)]

PasteIdle ==
    /\ ppc = "idle" /\ ptitle = <<>> /\ pbook = [hasSheets |-> FALSE, sheets |-> <<>>]
    /\ existingSheet = NoSheet /\ targetSheetId = 0 /\ requests = <<>> /\ submitted = <<>>
    /\ pcalls = <<>> /\ presult = NoPasteResult

\* pasteCSVData is invoked: sheets.spreadsheets.get is awaited
PasteCall ==
    /\ op = "pasteCSVData" /\ ppc = "start"
    /\ pcalls' = Append(pcalls, Pending("get", 0))
    /\ ppc' = "meta"
    /\ UNCHANGED <<op, ptitle, pbook, existingSheet, targetSheetId, requests, submitted,
                   presult, getTextVars, cellVars>>

\* spreadsheets.get returns: resolve the sheet, build the requests, await batchUpdate
PasteMetaOk ==
    /\ op = "pasteCSVData" /\ ppc = "meta"
    /\ existingSheet' = FindSheet(pbook, ptitle)
    /\ IF existingSheet'.found
       THEN /\ targetSheetId' = OrZero(existingSheet'.sheet.sheetId)
            /\ requests' = <<PasteDataRequest(targetSheetId')>>
       ELSE /\ \E k \in 0..(RandSteps - 1) : targetSheetId' = RandomSheetId(k)
            /\ requests' = <<AddSheetRequest(ptitle, targetSheetId'),
                             PasteDataRequest(targetSheetId')>>
    /\ submitted' = Append(submitted, requests')
    /\ pcalls' = Append(Returned(pcalls, <<>>), Pending("batchUpdate", 0))
    /\ ppc' = "batch"
    /\ UNCHANGED <<op, ptitle, pbook, presult, getTextVars, cellVars>>

\* getSheetsClient or spreadsheets.get throws: the catch
PasteMetaFail ==
    /\ op = "pasteCSVData" /\ ppc = "meta"
    /\ \E e \in Errors :
        /\ presult' = PasteError(e)
        /\ pcalls' = Thrown(pcalls, e)
    /\ ppc' = "done"
    /\ UNCHANGED <<op, ptitle, pbook, existingSheet, targetSheetId, requests, submitted,
                   getTextVars, cellVars>>

\* batchUpdate returns: the success payload
BatchOk ==
    /\ op = "pasteCSVData" /\ ppc = "batch"
    /\ presult' = PasteSuccess(existingSheet, ptitle, targetSheetId)
    /\ pcalls' = Returned(pcalls, <<>>)
    /\ ppc' = "done"
    /\ UNCHANGED <<op, ptitle, pbook, existingSheet, targetSheetId, requests, submitted,
                   getTextVars, cellVars>>

\* mutant: a failed batchUpdate is submitted again
BatchFailRetry ==
    /\ op = "pasteCSVData" /\ ppc = "batch"
    /\ \E e \in Errors : pcalls' = Append(Thrown(pcalls, e), Pending("batchUpdate", 0))
    /\ submitted' = Append(submitted, requests)
    /\ UNCHANGED <<op, ppc, ptitle, pbook, existingSheet, targetSheetId, requests, presult,
                   getTextVars, cellVars>>

\* batchUpdate throws: the catch
BatchFail ==
    /\ op = "pasteCSVData" /\ ppc = "batch"
    /\ \E e \in Errors :
        /\ presult' = PasteError(e)
        /\ pcalls' = Thrown(pcalls, e)
    /\ ppc' = "done"
    /\ UNCHANGED <<op, ptitle, pbook, existingSheet, targetSheetId, requests, submitted,
                   getTextVars, cellVars>>

-----------------------------------------------------------------------------
(* The service: one invocation of one entry point *)

InitGetText ==
    /\ op = "getText" /\ pc = "start"
    /\ format \in Formats /\ book \in Books
    /\ sheetNames = <<>> /\ idx = 1 /\ content = <<>> /\ jsonData = <<>>
    /\ calls = <<>> /\ result = NoResult
    /\ CellIdle /\ PasteIdle

InitCell ==
    /\ op = "csvCell"
    /\ cell \in Cells /\ csvOut = Undefined
    /\ GetTextIdle /\ PasteIdle

InitPaste ==
    /\ op = "pasteCSVData" /\ ppc = "start"
    /\ ptitle \in PasteTitles /\ pbook \in PasteBooks
    /\ existingSheet = NoSheet /\ targetSheetId = 0 /\ requests = <<>> /\ submitted = <<>>
    /\ pcalls = <<>> /\ presult = NoPasteResult
    /\ GetTextIdle /\ CellIdle

Init == InitGetText \/ InitCell \/ InitPaste

Next ==
    \/ GetTextCall \/ MetaOk \/ MetaFail \/ SkipSheet \/ IssueRange \/ RangeOk \/ RangeFail
    \/ GetTextReturn
    \/ EncodeCell
    \/ PasteCall \/ PasteMetaOk \/ PasteMetaFail \/ BatchOk \/ BatchFail

Spec == Init /\ [][Next]_vars

-----------------------------------------------------------------------------
(* Vocabulary of the properties *)

\* sub occurs in s
Contains(s, sub) ==
    \E i \in 0..(Len(s) - Len(sub)) : SubSeq(s, i + 1, i + Len(sub)) = sub

\* the positions of the sheets that have a title, in spreadsheet order
RECURSIVE TitledFrom(_, _)
TitledFrom(ts, i) ==
    IF i > Len(ts) THEN <<>>
    ELSE (IF Falsy(ts[i]) THEN <<>> ELSE <<i>>) \o TitledFrom(ts, i + 1)

TitledPositions == IF book.hasSheets THEN TitledFrom(book.sheets, 1) ELSE <<>>

\* the values.get calls of getText, in the order issued, and their positions
ValuesCalls == SelectSeq(calls, LAMBDA c : c.call = "values")
ValuesPositions == [n \in 1..Len(ValuesCalls) |-> ValuesCalls[n].pos]

IsPrefix(a, b) == Len(a) <= Len(b) /\ SubSeq(b, 1, Len(a)) = a

GetTextDone == op = "getText" /\ pc = "done"
JsonExported == GetTextDone /\ format = "json" /\ result.kind = "success"

\* the keys of the exported object, in the order serialized
JsonKeys == [m \in 1..Len(result.json) |-> result.json[m].key]

\* a sheet of the target spreadsheet has exactly this title
HasTitle(b, title) ==
    b.hasSheets /\ \E i \in 1..Len(b.sheets) : b.sheets[i].title = Str(title)

Count(log, call) == Len(SelectSeq(log, LAMBDA c : c.call = call))

PasteDone == op = "pasteCSVData" /\ ppc = "done"

-----------------------------------------------------------------------------
(* C1: every batch pasteCSVData submits is [pasteData] when a sheet has exactly   *)
(* the requested title (case-sensitively), and [addSheet, pasteData] with one     *)
(* shared synthesized sheetId when no sheet has it.                               *)
C1_UpsertOps ==
    op = "pasteCSVData" =>
        /\ ppc \in {"batch", "done"} /\ pcalls[1].outcome = "ok" => Len(submitted) = 1
        /\ \A n \in 1..Len(submitted) :
            LET batch == submitted[n]
            IN  IF HasTitle(pbook, ptitle)
                THEN /\ Len(batch) = 1
                     /\ batch[1].kind = "pasteData"
                ELSE /\ Len(batch) = 2
                     /\ batch[1].kind = "addSheet" /\ batch[1].title = ptitle
                     /\ batch[2].kind = "pasteData"
                     /\ batch[1].sheetId = batch[2].sheetId
                     /\ batch[1].sheetId = targetSheetId

\* a sheet titled "data" exists, "Data" is requested: a sheet is created
C1_Witness ==
    /\ PasteDone /\ presult.kind = "success"
    /\ ptitle = <<"D", "a", "t", "a">>
    /\ HasTitle(pbook, <<"d", "a", "t", "a">>) /\ ~HasTitle(pbook, ptitle)
    /\ Len(submitted) = 1 /\ Len(submitted[1]) = 2

(* C2: the sheetId of the pasteData op of every submitted batch is the sheetId of *)
(* the matched sheet of the fetched metadata, or the sheetId of an addSheet op    *)
(* placed earlier in the same batch.                                              *)
C2_PasteTargetsKnownSheet ==
    op = "pasteCSVData" =>
        \A n \in 1..Len(submitted) :
            LET batch == submitted[n]
            IN  \A i \in 1..Len(batch) :
                    batch[i].kind = "pasteData" =>
                        \/ \E j \in 1..Len(pbook.sheets) :
                              /\ pbook.sheets[j].title = Str(ptitle)
                              /\ pbook.sheets[j].sheetId = Num(batch[i].sheetId)
                        \/ \E j \in 1..(i - 1) :
                              /\ batch[j].kind = "addSheet"
                              /\ batch[j].sheetId = batch[i].sheetId

(* C3: once the metadata fetch of getText has succeeded, failed range fetches     *)
(* leave the result a success and every titled sheet is still fetched; the result *)
(* is an error, carrying the thrown message, only when the metadata fetch failed. *)
C3_SheetFailuresIsolated ==
    GetTextDone =>
        /\ result.kind \in {"success", "error"}
        /\ calls[1].call = "get"
        /\ calls[1].outcome = "ok" =>
              /\ result.kind = "success"
              /\ ValuesPositions = TitledPositions
        /\ result.kind = "error" =>
              /\ calls[1].outcome = "failed"
              /\ result.message = calls[1].message

\* the first sheet's fetch failed, the second was still fetched, the result is a success
C3_Witness ==
    /\ GetTextDone /\ result.kind = "success"
    /\ Len(ValuesCalls) >= 2
    /\ ValuesCalls[1].outcome = "failed"
    /\ ValuesCalls[2].outcome = "ok"

(* C4: the object exported with format=json has at most N keys, each the title of *)
(* a sheet and mapped to the rows its range fetch returned; a sheet whose fetch   *)
(* failed has no key and a sheet whose fetch succeeded has one.                   *)
C4_JsonKeysAreFetchedSheets ==
    JsonExported =>
        /\ Len(result.json) <= Len(book.sheets)
        /\ \A a, b \in 1..Len(result.json) : a # b => JsonKeys[a] # JsonKeys[b]
        /\ \A m \in 1..Len(result.json) :
              \E n \in 1..Len(ValuesCalls) :
                  /\ ValuesCalls[n].outcome = "ok"
                  /\ book.sheets[ValuesCalls[n].pos] = Str(JsonKeys[m])
                  /\ result.json[m].value = ValuesCalls[n].values
        /\ \A n \in 1..Len(ValuesCalls) :
              (ValuesCalls[n].outcome = "ok") <=>
                  \E m \in 1..Len(result.json) :
                      book.sheets[ValuesCalls[n].pos] = Str(JsonKeys[m])

(* C5: the keys of the object serialized for format=json appear in the order of   *)
(* the sheets in the spreadsheet.                                                 *)
C5_JsonKeyOrder ==
    JsonExported =>
        \A a, b \in 1..Len(result.json) :
            a < b =>
                \E i, j \in 1..Len(book.sheets) :
                    /\ i < j
                    /\ book.sheets[i] = Str(JsonKeys[a])
                    /\ book.sheets[j] = Str(JsonKeys[b])

\* format=text, the only sheet is named "Empty" and its fetch returned zero rows
EmptySheetScenario ==
    /\ GetTextDone /\ format = "text"
    /\ book.hasSheets /\ book.sheets = <<Str(<<"E", "m", "p", "t", "y">>)>>
    /\ Len(calls) = 2 /\ calls[1].outcome = "ok"
    /\ calls[2].outcome = "ok" /\ calls[2].values = <<>>

EmptySheetText ==
    <<"S", "h", "e", "e", "t", " ", "N", "a", "m", "e", ":", " ", "E", "m", "p", "t", "y", "\n",
      "(", "E", "m", "p", "t", "y", " ", "s", "h", "e", "e", "t", ")">>

(* C6 as stated: the text returned for that export contains                       *)
(* "Sheet Name: Empty\n(Empty sheet)\n\n".                                        *)
C6_EmptySheetBodyWithSeparator ==
    EmptySheetScenario =>
        /\ result.kind = "success"
        /\ Contains(result.text, EmptySheetText \o <<"\n", "\n">>)

(* C6 amended: the text returned for that export contains                         *)
(* "Sheet Name: Empty\n(Empty sheet)" and ends there: the final trim removes the  *)
(* newline of the marker and the blank-line separator.                            *)
C6_EmptySheetBodyTrimmed ==
    EmptySheetScenario =>
        /\ result.kind = "success"
        /\ Contains(result.text, EmptySheetText)
        /\ SubSeq(result.text, Len(result.text) - Len(EmptySheetText) + 1, Len(result.text))
              = EmptySheetText

C6_Witness == EmptySheetScenario /\ book.title.def /\ result.kind = "success"

\* the string form of a cell: String(cell), and '' for an empty cell
CellString(c) == IF c.t = "null" THEN <<>> ELSE JsString(c)

NeedsQuoting(s) == Includes(s, ",") \/ Includes(s, "\"") \/ Includes(s, "\n")

\* a csv parser reading one field: what follows the opening quote
RECURSIVE Unquote(_)
Unquote(r) ==
    IF r = <<>> THEN [ok |-> FALSE, s |-> <<>>]
    ELSE IF Head(r) # "\""
    THEN LET t == Unquote(Tail(r)) IN [ok |-> t.ok, s |-> <<Head(r)>> \o t.s]
    ELSE IF Len(r) >= 2 /\ r[2] = "\""
    THEN LET t == Unquote(SubSeq(r, 3, Len(r))) IN [ok |-> t.ok, s |-> <<"\"">> \o t.s]
    ELSE [ok |-> Len(r) = 1, s |-> <<>>]

\* a csv parser (RFC 4180) reading one field
CsvDecode(field) ==
    IF field # <<>> /\ Head(field) = "\"" THEN Unquote(Tail(field))
    ELSE [ok |-> ~NeedsQuoting(field), s |-> field]

(* C7: the csv encoder emits a cell in double quotes, its quotes doubled, iff its *)
(* string form contains a comma, a quote or a newline, and verbatim otherwise;    *)
(* a csv parser reads the original string form back.                              *)
C7_CsvCellRoundTrip ==
    (op = "csvCell" /\ csvOut.def) =>
        LET str == CellString(cell)
        IN  /\ csvOut.s = IF NeedsQuoting(str)
                          THEN <<"\"">> \o DoubleQuotes(str) \o <<"\"">>
                          ELSE str
            /\ CsvDecode(csvOut.s) = [ok |-> TRUE, s |-> str]

NewData == <<"N", "e", "w", "D", "a", "t", "a">>

NewDataScenario == PasteDone /\ ptitle = NewData /\ ~HasTitle(pbook, NewData)

NewDataPayload ==
    /\ presult.kind = "success"
    /\ presult.sheetId \in 0..RandomRange
    /\ presult.message =
          <<"C", "r", "e", "a", "t", "e", "d", " ", "n", "e", "w", " ", "s", "h", "e", "e", "t", " ", "\"",
            "N", "e", "w", "D", "a", "t", "a",
            "\"", " ", "a", "n", "d", " ", "p", "o", "p", "u", "l", "a", "t", "e", "d", " ",
            "w", "i", "t", "h", " ", "d", "a", "t", "a">>
    /\ submitted = << <<[kind |-> "addSheet", sheetId |-> presult.sheetId, title |-> NewData],
                        [kind |-> "pasteData", sheetId |-> presult.sheetId, title |-> <<>>]>> >>

C9_PasteFailuresReported ==
    op = "pasteCSVData" =>
        /\ Count(pcalls, "get") <= 1
        /\ Count(pcalls, "batchUpdate") <= 1
        /\ Len(submitted) = Count(pcalls, "batchUpdate")
        /\ \A n \in 1..Len(pcalls) :
              pcalls[n].outcome = "failed" =>
                  /\ n = Len(pcalls)
                  /\ ppc = "done"
                  /\ presult.kind = "error"
                  /\ presult.error = pcalls[n].message
        /\ (pcalls # <<>> /\ pcalls[1].outcome = "failed") => submitted = <<>>
        /\ presult.kind = "success" =>
              /\ Len(pcalls) = 2
              /\ pcalls[2].call = "batchUpdate"
              /\ pcalls[2].outcome = "ok"
        /\ ppc = "done" => presult.kind \in {"success", "error"}

\* the batch submission failed and its message is returned
C9_Witness ==
    /\ PasteDone
    /\ Len(pcalls) = 2 /\ pcalls[2].call = "batchUpdate" /\ pcalls[2].outcome = "failed"
    /\ presult.kind = "error" /\ presult.error = "NotFound"

\* the block of the titled sheet at position i, from the outcome of its fetch
BlockAt(i) ==
    LET c == ValuesCalls[CHOOSE n \in 1..Len(ValuesCalls) : ValuesCalls[n].pos = i]
        header == <<"S", "h", "e", "e", "t", " ", "N", "a", "m", "e", ":", " ">>
                  \o book.sheets[i].s \o <<"\n">>
    IN  IF c.outcome = "ok"
        THEN header
             \o (IF c.values = <<>> THEN <<"(", "E", "m", "p", "t", "y", " ", "s", "h", "e", "e", "t", ")", "\n">>
                 ELSE EncodeRows(c.values, format))
             \o <<"\n">>
        ELSE header
             \o <<"(", "E", "r", "r", "o", "r", " ", "r", "e", "a", "d", "i", "n", "g", " ",
                  "s", "h", "e", "e", "t", ")", "\n", "\n">>

RECURSIVE BlocksOf(_)
BlocksOf(positions) ==
    IF positions = <<>> THEN <<>> ELSE BlockAt(Head(positions)) \o BlocksOf(Tail(positions))

ExpectedBody ==
    (IF Falsy(book.title) THEN <<>> ELSE TitleHeader(book.title.s)) \o BlocksOf(TitledPositions)

(* C10: getText issues its range fetches one at a time, in spreadsheet order,     *)
(* after the metadata fetch: no call is issued while an earlier one is pending.   *)
(* The text/csv body is the title header and one block per titled sheet, in       *)
(* spreadsheet order (header and rows, or header and error marker), trimmed.      *)
C10_SequentialFetchOrderedBlocks ==
    op = "getText" =>
        /\ \A n \in 1..Len(calls) : calls[n].outcome = "pending" => n = Len(calls)
        /\ \A n \in 1..Len(calls) : (calls[n].call = "get") <=> (n = 1)
        /\ IsPrefix(ValuesPositions, TitledPositions)
        /\ (pc = "done" /\ result.kind = "success" /\ format # "json") =>
              /\ ValuesPositions = TitledPositions
              /\ result.text = Trim(ExpectedBody)

\* csv, two titled sheets: the first failed, the second returned rows
C10_Witness ==
    /\ GetTextDone /\ format = "csv" /\ result.kind = "success"
    /\ Len(ValuesCalls) = 2
    /\ ValuesCalls[1].outcome = "failed"
    /\ ValuesCalls[2].outcome = "ok" /\ Len(ValuesCalls[2].values) = 2
    /\ Contains(result.text, <<"(", "E", "r", "r", "o", "r", " ", "r", "e", "a", "d", "i", "n", "g", " ",
                               "s", "h", "e", "e", "t", ")", "\n", "\n", "S", "h", "e", "e", "t">>)

====
